---- MODULE Spec2Model ----
(***************************************************************************)
(* Model of the zabbix_loadtest scripts.  Four programs share one remote   *)
(* monitoring system (groups, hosts, items):                               *)
(*   "load"   src/loadTestZabbix.go   create-only, unbounded sender loop    *)
(*   "api"    src/unnamed/part_000    create-only, no load phase            *)
(*   "lookup" src/unnamed/part_001    lookup-before-create, timed senders   *)
(*   "single" src/unnamed/part_002    one hostgroup.create call             *)
(* One run of one program is modelled: the prompted inputs and the remote   *)
(* state before the run are drawn in Init.  Strings are sequences of        *)
(* tokens so that fmt.Sprintf and the API's substring search are computed.  *)
(***************************************************************************)
EXTENDS Integers, Sequences, FiniteSets, TLC

\* ---------------------------------------------------------------- bounds
MaxHosts == 2
MaxItems == 2
MaxDuration == 1
MaxSends == 2
MaxNow == 1

Variants == {"load", "api", "lookup", "single"}

VARIABLES
    variant,          \* which program runs
    numHosts,         \* prompted host count
    numItems,         \* prompted items-per-host count
    testDurationSec,  \* prompted duration (part_001 only)
    groups,           \* remote: set of [groupid, name]
    hosts,            \* remote: set of [hostid, host, groupid]
    items,            \* remote: set of [itemid, hostid, key_]
    nextid,           \* remote: next identifier it assigns
    calls,            \* API calls issued so far, in order
    pc,               \* position of main
    groupID,          \* main's groupID
    i,                \* main's host loop index
    hostID,           \* main's hostID / hID
    j,                \* main's item loop index
    hostNames,        \* main's hostNames slice
    k,                \* index of the range loop that launches the workers
    wg,               \* sync.WaitGroup counter
    workers,          \* per launched goroutine: its locals
    sends,            \* per goroutine: the zabbix_sender command lines it ran
    now,              \* wall clock, in seconds
    pre               \* the remote <<groups, hosts, items>> before the run

remote == <<groups, hosts, items, nextid>>
inputs == <<variant, numHosts, numItems, testDurationSec>>
mainv == <<pc, groupID, i, hostID, j, hostNames, k>>
loadv == <<wg, workers, sends>>
vars == <<variant, numHosts, numItems, testDurationSec, groups, hosts, items,
          nextid, calls, pc, groupID, i, hostID, j, hostNames, k, wg, workers,
          sends, now, pre>>

\* ------------------------------------------------------------- strings
DigitChar(d) == <<"0", "1", "2", "3", "4", "5", "6", "7", "8", "9">>[d + 1]

\* fmt.Sprintf("%d", n) for n >= 0
RECURSIVE Digits(_)
Digits(n) == IF n < 10 THEN <<DigitChar(n)>>
             ELSE Digits(n \div 10) \o <<DigitChar(n % 10)>>

\* LIKE "%pat%": pat occurs in s
Contains(s, pat) ==
    \E o \in 0..(Len(s) - Len(pat)) : SubSeq(s, o + 1, o + Len(pat)) = pat

PerfGroupName == <<"PerformanceTestGroup">>
PerfHostName(n) == <<"PerfTestHost-">> \o Digits(n)
PerfItemKey(n) == <<"perf.test[">> \o Digits(n) \o <<"]">>
LoadGroupName == <<"LoadTestGroup">>
LoadHostName(n) == <<"LoadTestHost_">> \o Digits(n)
LoadItemKey(n) == <<"loadtest.item.">> \o Digits(n)
TestGroupName == <<"TestGroup">>

GroupName(v) == CASE v = "load" -> LoadGroupName
                  [] v = "single" -> TestGroupName
                  [] OTHER -> PerfGroupName
HostName(v, n) == IF v = "load" THEN LoadHostName(n) ELSE PerfHostName(n)
ItemKey(v, n) == IF v = "load" THEN LoadItemKey(n) ELSE PerfItemKey(n)

\* ------------------------------------------------------ the remote API
\* hostgroup.get with filter {name}: exact match
HostgroupGet(name) == {g \in groups : g.name = name}


\* mutant: the filter never matches (it names a field hosts are not found by)
HostGet_NoMatch(name) == {h \in hosts : FALSE}

\* host.get with filter {host}: exact match
HostGet(name) == {h \in hosts : h.host = name}

\* item.get with hostids and search {key_}: substring match on that host
ItemGet(hid, pat) == {it \in items : it.hostid = hid /\ Contains(it.key_, pat)}

\* what one callZabbixAPI can come back with: "ok"; "transport" (request or
\* decode failure, nothing applied); "resplost" (applied remotely, the answer
\* lost or undecodable); "apierror" (non-null error member)
GetOutcomes == {"ok", "transport", "apierror"}
CreateOutcomes(dup) == IF dup THEN {"transport", "apierror"}
                       ELSE {"ok", "transport", "resplost", "apierror"}
Applied(out) == out \in {"ok", "resplost"}

Call(method, name, id, out) ==
    [method |-> method, name |-> name, id |-> id, out |-> out]

\* hostgroup.create {name}; the remote refuses a second group of that name
GroupDup(name) == \E g \in groups : g.name = name
RemoteGroupCreate(name, out) ==
    /\ groups' = IF Applied(out)
                 THEN groups \cup {[groupid |-> nextid, name |-> name]}
                 ELSE groups
    /\ nextid' = IF Applied(out) THEN nextid + 1 ELSE nextid
    /\ UNCHANGED <<hosts, items>>

\* host.create {host, interfaces, groups: [{groupid}]}
HostDup(name) == \E h \in hosts : h.host = name
RemoteHostCreate(name, gid, out) ==
    /\ hosts' = IF Applied(out)
                THEN hosts \cup {[hostid |-> nextid, host |-> name, groupid |-> gid]}
                ELSE hosts
    /\ nextid' = IF Applied(out) THEN nextid + 1 ELSE nextid
    /\ UNCHANGED <<groups, items>>

\* item.create {name, key_, hostid, type: 2, value_type}
ItemDup(hid, key) == \E it \in items : it.hostid = hid /\ it.key_ = key
RemoteItemCreate(hid, key, out) ==
    /\ items' = IF Applied(out)
                THEN items \cup {[itemid |-> nextid, hostid |-> hid, key_ |-> key]}
                ELSE items
    /\ nextid' = IF Applied(out) THEN nextid + 1 ELSE nextid
    /\ UNCHANGED <<groups, hosts>>

\* ------------------------------------------- remote state before a run
HostIdx == 1..MaxHosts
Profiles == {"none", "first", "all", "foreign"}
ForeignKey(v) == <<"my.">> \o ItemKey(v, 1)
ProfileKeys(v, prof) ==
    CASE prof = "first" -> {<<1, ItemKey(v, 1)>>}
      [] prof = "all" -> {<<m, ItemKey(v, m)>> : m \in 1..MaxItems}
      [] prof = "foreign" -> {<<99, ForeignKey(v)>>}
      [] OTHER -> {}

\* which of the hosts exist, in which group, and which items they all carry
PreStates(v) ==
    {p \in [group : BOOLEAN,
            host : [HostIdx -> {"absent", "inGroup", "inOther"}],
            prof : Profiles] :
        /\ \A n \in HostIdx : p.host[n] = "inGroup" => p.group
        /\ (\A n \in HostIdx : p.host[n] = "absent") => p.prof = "none"
        /\ v # "lookup" =>
              /\ p.prof = "none"
              /\ \A n \in HostIdx : p.host[n] # "inGroup"
        /\ v = "single" => \A n \in HostIdx : p.host[n] = "absent"}

PreGroups(v, p) ==
    (IF p.group THEN {[groupid |-> 2, name |-> GroupName(v)]} ELSE {})
    \cup (IF \E n \in HostIdx : p.host[n] = "inOther"
          THEN {[groupid |-> 1, name |-> <<"OtherGroup">>]} ELSE {})
PreHosts(v, p) ==
    {[hostid |-> 10 + n, host |-> HostName(v, n),
      groupid |-> IF p.host[n] = "inGroup" THEN 2 ELSE 1] :
        n \in {m \in HostIdx : p.host[m] # "absent"}}
PreItems(v, p) ==
    UNION {{[itemid |-> 100 * n + e[1], hostid |-> 10 + n, key_ |-> e[2]] :
               e \in ProfileKeys(v, p.prof)} :
           n \in {m \in HostIdx : p.host[m] # "absent"}}

\* remote states a run with a positive duration is followed from: nothing of
\* the program's there, or everything there and in place
BasicPre(p) ==
    \/ \A n \in HostIdx : p.host[n] = "absent"
    \/ p.group /\ p.prof = "all" /\ \A n \in HostIdx : p.host[n] = "inGroup"

NoWorker == [st |-> "none", host |-> <<>>, endTime |-> 0, sentValues |-> 0,
             err |-> "none", j |-> 0, wake |-> 0]

Init ==
    /\ variant \in Variants
    /\ numHosts \in IF variant = "single" THEN {0} ELSE 0..MaxHosts
    /\ numItems \in IF variant = "single" THEN {0} ELSE 0..MaxItems
    /\ testDurationSec \in IF variant = "lookup" THEN 0..MaxDuration ELSE {0}
    /\ \E p \in PreStates(variant) :
          /\ testDurationSec > 0 => BasicPre(p)
          /\ groups = PreGroups(variant, p)
          /\ hosts = PreHosts(variant, p)
          /\ items = PreItems(variant, p)
    /\ nextid = 1000
    /\ calls = <<>>
    /\ pc = "start"
    /\ groupID = 0
    /\ i = 0
    /\ hostID = 0
    /\ j = 0
    /\ hostNames = <<>>
    /\ k = 0
    /\ wg = 0
    /\ workers = [w \in HostIdx |-> NoWorker]
    /\ sends = [w \in HostIdx |-> <<>>]
    /\ now = 0
    /\ pre = <<groups, hosts, items>>


\* mutant: the failure is logged and the call made again (Printf for Fatalf)
Fatal_Retry == /\ pc' = pc
               /\ UNCHANGED <<groupID, i, hostID, j, hostNames, k>>

\* log.Fatalf: the process exits with status 1
Fatal == /\ pc' = "fatal"
         /\ UNCHANGED <<groupID, i, hostID, j, hostNames, k>>


\* mutant: the senders are launched once the first host is provisioned
P1_LoopHosts_LaunchEarly(n, names) ==
    /\ i' = n
    /\ pc' = IF n <= numHosts /\ Len(names) = 0 THEN "hostGet"
             ELSE IF Len(names) = 0 THEN "wait" ELSE "launch"

\* ------------------------------------------- src/unnamed/part_001 main
\* for i := n; i <= numHosts: the loop test, and what follows the loop
P1_LoopHosts(n, names) ==
    /\ i' = n
    /\ pc' = IF n <= numHosts THEN "hostGet"
             ELSE IF Len(names) = 0 THEN "wait" ELSE "launch"


\* mutant: j < numItems for j <= numItems
P1_LoopItems_OffByOne(m, names) ==
    /\ j' = m
    /\ IF m < numItems THEN pc' = "itemGet" /\ i' = i
       ELSE P1_LoopHosts(i + 1, names)

\* for j := m; j <= numItems: the loop test; past it, i++
P1_LoopItems(m, names) ==
    /\ j' = m
    /\ IF m <= numItems THEN pc' = "itemGet" /\ i' = i
       ELSE P1_LoopHosts(i + 1, names)


\* mutant: the wrong identifier variable is passed as the groupid
P1_HostCreateGroup_HostID == hostID

\* "groups": [{"groupid": groupID}] of hostCreateParams
P1_HostCreateGroup == groupID

P1_GroupGet ==
    /\ variant = "lookup" /\ pc = "start"
    /\ \E out \in GetOutcomes :
          /\ calls' = Append(calls, Call("hostgroup.get", PerfGroupName, 0, out))
          /\ IF out # "ok" THEN Fatal
             ELSE IF HostgroupGet(PerfGroupName) # {}
             THEN \E g \in HostgroupGet(PerfGroupName) :
                     /\ groupID' = g.groupid
                     /\ P1_LoopHosts(1, hostNames)
                     /\ UNCHANGED <<hostID, j, hostNames, k>>
             ELSE /\ pc' = "groupCreate"
                  /\ UNCHANGED <<groupID, i, hostID, j, hostNames, k>>
    /\ UNCHANGED <<inputs, remote, loadv, now, pre>>

P1_GroupCreate ==
    /\ variant = "lookup" /\ pc = "groupCreate"
    /\ \E out \in CreateOutcomes(GroupDup(PerfGroupName)) :
          /\ calls' = Append(calls, Call("hostgroup.create", PerfGroupName, 0, out))
          /\ RemoteGroupCreate(PerfGroupName, out)
          /\ IF out # "ok" THEN Fatal
             ELSE /\ groupID' = nextid
                  /\ P1_LoopHosts(1, hostNames)
                  /\ UNCHANGED <<hostID, j, hostNames, k>>
    /\ UNCHANGED <<inputs, loadv, now, pre>>

\* mutant: a host found outside the group is moved into it with host.update
P1_HostGet_MoveToGroup ==
    /\ variant = "lookup" /\ pc = "hostGet"
    /\ \E out \in GetOutcomes :
          /\ IF out # "ok"
             THEN /\ calls' = Append(calls, Call("host.get", PerfHostName(i), 0, out))
                  /\ hosts' = hosts
                  /\ Fatal
             ELSE IF HostGet(PerfHostName(i)) # {}
             THEN \E h \in HostGet(PerfHostName(i)) :
                     /\ calls' = Append(Append(calls,
                                    Call("host.get", PerfHostName(i), 0, out)),
                                    Call("host.update", PerfHostName(i), groupID, out))
                     /\ hosts' = (hosts \ {h}) \cup {[h EXCEPT !.groupid = groupID]}
                     /\ hostID' = h.hostid
                     /\ hostNames' = Append(hostNames, PerfHostName(i))
                     /\ P1_LoopItems(1, hostNames')
                     /\ UNCHANGED <<groupID, k>>
             ELSE /\ calls' = Append(calls, Call("host.get", PerfHostName(i), 0, out))
                  /\ hosts' = hosts
                  /\ pc' = "hostCreate"
                  /\ UNCHANGED <<groupID, i, hostID, j, hostNames, k>>
    /\ UNCHANGED <<inputs, groups, items, nextid, loadv, now, pre>>

P1_HostGet ==
    /\ variant = "lookup" /\ pc = "hostGet"
    /\ \E out \in GetOutcomes :
          /\ calls' = Append(calls, Call("host.get", PerfHostName(i), 0, out))
          /\ IF out # "ok" THEN Fatal
             ELSE IF HostGet(PerfHostName(i)) # {}
             THEN \E h \in HostGet(PerfHostName(i)) :
                     /\ hostID' = h.hostid
                     /\ hostNames' = Append(hostNames, PerfHostName(i))
                     /\ P1_LoopItems(1, hostNames')
                     /\ UNCHANGED <<groupID, k>>
             ELSE /\ pc' = "hostCreate"
                  /\ UNCHANGED <<groupID, i, hostID, j, hostNames, k>>
    /\ UNCHANGED <<inputs, remote, loadv, now, pre>>

P1_HostCreate ==
    /\ variant = "lookup" /\ pc = "hostCreate"
    /\ \E out \in CreateOutcomes(HostDup(PerfHostName(i))) :
          /\ calls' = Append(calls, Call("host.create", PerfHostName(i),
                                         P1_HostCreateGroup, out))
          /\ RemoteHostCreate(PerfHostName(i), P1_HostCreateGroup, out)
          /\ IF out # "ok" THEN Fatal
             ELSE /\ hostID' = nextid
                  /\ hostNames' = Append(hostNames, PerfHostName(i))
                  /\ P1_LoopItems(1, hostNames')
                  /\ UNCHANGED <<groupID, k>>
    /\ UNCHANGED <<inputs, loadv, now, pre>>

P1_ItemGet ==
    /\ variant = "lookup" /\ pc = "itemGet"
    /\ \E out \in GetOutcomes :
          /\ calls' = Append(calls, Call("item.get", PerfItemKey(j), hostID, out))
          /\ IF out # "ok" THEN Fatal
             ELSE IF ItemGet(hostID, PerfItemKey(j)) = {}
             THEN /\ pc' = "itemCreate"
                  /\ UNCHANGED <<groupID, i, hostID, j, hostNames, k>>
             ELSE /\ P1_LoopItems(j + 1, hostNames)
                  /\ UNCHANGED <<groupID, hostID, hostNames, k>>
    /\ UNCHANGED <<inputs, remote, loadv, now, pre>>

P1_ItemCreate ==
    /\ variant = "lookup" /\ pc = "itemCreate"
    /\ \E out \in CreateOutcomes(ItemDup(hostID, PerfItemKey(j))) :
          /\ calls' = Append(calls, Call("item.create", PerfItemKey(j), hostID, out))
          /\ RemoteItemCreate(hostID, PerfItemKey(j), out)
          /\ IF out # "ok" THEN Fatal
             ELSE /\ P1_LoopItems(j + 1, hostNames)
                  /\ UNCHANGED <<groupID, hostID, hostNames, k>>
    /\ UNCHANGED <<inputs, loadv, now, pre>>

\* for _, hostName := range hostNames { wg.Add(1); go sendValues(...) }
P1_Launch ==
    /\ variant = "lookup" /\ pc = "launch"
    /\ k' = k + 1
    /\ wg' = wg + 1
    /\ workers' = [workers EXCEPT ![k + 1] =
                      [NoWorker EXCEPT !.st = "spawned", !.host = hostNames[k + 1]]]
    /\ pc' = IF k + 1 = Len(hostNames) THEN "wait" ELSE "launch"
    /\ UNCHANGED <<inputs, remote, calls, groupID, i, hostID, j, hostNames,
                   sends, now, pre>>


\* mutant: main does not wait for the WaitGroup
P1_Wait_NoJoin ==
    /\ variant = "lookup" /\ pc = "wait"
    /\ pc' = "done"
    /\ UNCHANGED <<inputs, remote, calls, groupID, i, hostID, j, hostNames, k,
                   loadv, now, pre>>

\* wg.Wait(); fmt.Println("Teste de performance concluido."); return
P1_Wait ==
    /\ variant = "lookup" /\ pc = "wait"
    /\ wg = 0
    /\ pc' = "done"
    /\ UNCHANGED <<inputs, remote, calls, groupID, i, hostID, j, hostNames, k,
                   loadv, now, pre>>

\* the Go process is alive: main has neither returned nor called log.Fatalf
Alive == pc \notin {"done", "fatal"}

\* sendValues up to its loop: startTime, endTime, sentValues := 0
SendValuesStart(w) ==
    /\ Alive /\ variant = "lookup"
    /\ workers[w].st = "spawned"
    /\ workers' = [workers EXCEPT ![w].st = "loop",
                                  ![w].endTime = now + testDurationSec,
                                  ![w].sentValues = 0]
    /\ UNCHANGED <<inputs, remote, calls, mainv, wg, sends, now, pre>>


\* mutant: a failed send is made again (sentValues++ only on success)
SendValuesIter_RetryOnFail(w) ==
    /\ Alive /\ variant = "lookup"
    /\ workers[w].st = "loop"
    /\ now < workers[w].endTime
    /\ Len(sends[w]) < MaxSends
    /\ sends' = [sends EXCEPT ![w] = Append(@,
                     [host |-> workers[w].host, key |-> PerfItemKey(1),
                      value |-> Digits(workers[w].sentValues + 1)])]
    /\ \E e \in {"nil", "fail"} :
          workers' = [workers EXCEPT ![w].err = e,
                         ![w].sentValues = IF e = "nil" THEN @ + 1 ELSE @]
    /\ UNCHANGED <<inputs, remote, calls, mainv, wg, now, pre>>

\* one iteration: time.Now().Before(endTime); zabbix_sender ... -k perf.test[1]
\* -o sentValues+1; log on failure; sentValues++; Sleep(10ms)
SendValuesIter(w) ==
    /\ Alive /\ variant = "lookup"
    /\ workers[w].st = "loop"
    /\ now < workers[w].endTime
    /\ workers[w].sentValues < MaxSends
    /\ sends' = [sends EXCEPT ![w] = Append(@,
                     [host |-> workers[w].host, key |-> PerfItemKey(1),
                      value |-> Digits(workers[w].sentValues + 1)])]
    /\ \E e \in {"nil", "fail"} :
          workers' = [workers EXCEPT ![w].err = e, ![w].sentValues = @ + 1]
    /\ UNCHANGED <<inputs, remote, calls, mainv, wg, now, pre>>

\* the loop test fails: final log line, return (the locals are gone),
\* deferred wg.Done()
SendValuesEnd(w) ==
    /\ Alive /\ variant = "lookup"
    /\ workers[w].st = "loop"
    /\ ~(now < workers[w].endTime)
    /\ workers' = [workers EXCEPT ![w] =
                      [NoWorker EXCEPT !.st = "done", !.host = workers[w].host]]
    /\ wg' = wg - 1
    /\ UNCHANGED <<inputs, remote, calls, mainv, sends, now, pre>>

\* ------------------------------------------- src/loadTestZabbix.go main
\* for i := n; i <= hosts: the loop test, and what follows the loop
LT_LoopHosts(n, names) ==
    /\ i' = n
    /\ pc' = IF n <= numHosts THEN "createHost"
             ELSE IF Len(names) = 0 THEN "wait" ELSE "launch"

\* for j := m; j <= itens: the loop test; past it, append(hostNames, name), i++
LT_LoopItems(m) ==
    /\ j' = m
    /\ IF m <= numItems
       THEN pc' = "createItem" /\ i' = i /\ hostNames' = hostNames
       ELSE /\ hostNames' = Append(hostNames, LoadHostName(i))
            /\ LT_LoopHosts(i + 1, hostNames')

\* createGroup: callZabbixAPI calls log.Fatalf itself on any failure
LT_CreateGroup ==
    /\ variant = "load" /\ pc = "start"
    /\ \E out \in CreateOutcomes(GroupDup(LoadGroupName)) :
          /\ calls' = Append(calls, Call("hostgroup.create", LoadGroupName, 0, out))
          /\ RemoteGroupCreate(LoadGroupName, out)
          /\ IF out # "ok" THEN Fatal
             ELSE /\ groupID' = nextid
                  /\ LT_LoopHosts(1, hostNames)
                  /\ UNCHANGED <<hostID, j, hostNames, k>>
    /\ UNCHANGED <<inputs, loadv, now, pre>>

LT_CreateHost ==
    /\ variant = "load" /\ pc = "createHost"
    /\ \E out \in CreateOutcomes(HostDup(LoadHostName(i))) :
          /\ calls' = Append(calls, Call("host.create", LoadHostName(i), groupID, out))
          /\ RemoteHostCreate(LoadHostName(i), groupID, out)
          /\ IF out # "ok" THEN Fatal
             ELSE /\ hostID' = nextid
                  /\ LT_LoopItems(1)
                  /\ UNCHANGED <<groupID, k>>
    /\ UNCHANGED <<inputs, loadv, now, pre>>

LT_CreateItem ==
    /\ variant = "load" /\ pc = "createItem"
    /\ \E out \in CreateOutcomes(ItemDup(hostID, LoadItemKey(j))) :
          /\ calls' = Append(calls, Call("item.create", LoadItemKey(j), hostID, out))
          /\ RemoteItemCreate(hostID, LoadItemKey(j), out)
          /\ IF out # "ok" THEN Fatal
             ELSE /\ LT_LoopItems(j + 1)
                  /\ UNCHANGED <<groupID, hostID, k>>
    /\ UNCHANGED <<inputs, loadv, now, pre>>

\* for _, h := range hostNames { wg.Add(1); go func(host string){...}(h) }
LT_Launch ==
    /\ variant = "load" /\ pc = "launch"
    /\ k' = k + 1
    /\ wg' = wg + 1
    /\ workers' = [workers EXCEPT ![k + 1] =
                      [NoWorker EXCEPT !.st = "loop", !.host = hostNames[k + 1],
                                       !.j = 1]]
    /\ pc' = IF k + 1 = Len(hostNames) THEN "wait" ELSE "launch"
    /\ UNCHANGED <<inputs, remote, calls, groupID, i, hostID, j, hostNames,
                   sends, now, pre>>

\* wg.Wait(); return
LT_Wait ==
    /\ variant = "load" /\ pc = "wait"
    /\ wg = 0
    /\ pc' = "done"
    /\ UNCHANGED <<inputs, remote, calls, groupID, i, hostID, j, hostNames, k,
                   loadv, now, pre>>

\* the goroutine's inner loop body: sendValue(zabbixServer, host, key, now);
\* sendValue discards cmd.Run()'s error
LT_WorkerSend(w) ==
    /\ Alive /\ variant = "load"
    /\ workers[w].st = "loop"
    /\ workers[w].j <= numItems
    /\ Len(sends[w]) < MaxSends
    /\ sends' = [sends EXCEPT ![w] = Append(@,
                     [host |-> workers[w].host, key |-> LoadItemKey(workers[w].j),
                      value |-> Digits(now)])]
    /\ workers' = [workers EXCEPT ![w].j = @ + 1]
    /\ UNCHANGED <<inputs, remote, calls, mainv, wg, now, pre>>


\* mutant: the goroutine returns after one round (no endless for)
LT_WorkerSleep_Return(w) ==
    /\ Alive /\ variant = "load"
    /\ workers[w].st = "loop"
    /\ workers[w].j > numItems
    /\ workers' = [workers EXCEPT ![w].st = "done"]
    /\ wg' = wg - 1
    /\ UNCHANGED <<inputs, remote, calls, mainv, sends, now, pre>>

\* inner loop done: time.Sleep(1 * time.Second)
LT_WorkerSleep(w) ==
    /\ Alive /\ variant = "load"
    /\ workers[w].st = "loop"
    /\ workers[w].j > numItems
    /\ workers' = [workers EXCEPT ![w].st = "sleep", ![w].wake = now + 1]
    /\ UNCHANGED <<inputs, remote, calls, mainv, wg, sends, now, pre>>

\* the sleep is over: next round of the endless for
LT_WorkerWake(w) ==
    /\ Alive /\ variant = "load"
    /\ workers[w].st = "sleep"
    /\ now >= workers[w].wake
    /\ workers' = [workers EXCEPT ![w].st = "loop", ![w].j = 1]
    /\ UNCHANGED <<inputs, remote, calls, mainv, wg, sends, now, pre>>

\* ------------------------------------------- src/unnamed/part_000 main
P0_LoopHosts(n) ==
    /\ i' = n
    /\ pc' = IF n <= numHosts THEN "createHost" ELSE "wait"

P0_LoopItems(m) ==
    /\ j' = m
    /\ IF m <= numItems THEN pc' = "createItem" /\ i' = i
       ELSE P0_LoopHosts(i + 1)

P0_CreateGroup ==
    /\ variant = "api" /\ pc = "start"
    /\ \E out \in CreateOutcomes(GroupDup(PerfGroupName)) :
          /\ calls' = Append(calls, Call("hostgroup.create", PerfGroupName, 0, out))
          /\ RemoteGroupCreate(PerfGroupName, out)
          /\ IF out # "ok" THEN Fatal
             ELSE /\ groupID' = nextid
                  /\ P0_LoopHosts(1)
                  /\ UNCHANGED <<hostID, j, hostNames, k>>
    /\ UNCHANGED <<inputs, loadv, now, pre>>

P0_CreateHost ==
    /\ variant = "api" /\ pc = "createHost"
    /\ \E out \in CreateOutcomes(HostDup(PerfHostName(i))) :
          /\ calls' = Append(calls, Call("host.create", PerfHostName(i), groupID, out))
          /\ RemoteHostCreate(PerfHostName(i), groupID, out)
          /\ IF out # "ok" THEN Fatal
             ELSE /\ hostID' = nextid
                  /\ P0_LoopItems(1)
                  /\ UNCHANGED <<groupID, hostNames, k>>
    /\ UNCHANGED <<inputs, loadv, now, pre>>

P0_CreateItem ==
    /\ variant = "api" /\ pc = "createItem"
    /\ \E out \in CreateOutcomes(ItemDup(hostID, PerfItemKey(j))) :
          /\ calls' = Append(calls, Call("item.create", PerfItemKey(j), hostID, out))
          /\ RemoteItemCreate(hostID, PerfItemKey(j), out)
          /\ IF out # "ok" THEN Fatal
             ELSE /\ P0_LoopItems(j + 1)
                  /\ UNCHANGED <<groupID, hostID, hostNames, k>>
    /\ UNCHANGED <<inputs, loadv, now, pre>>

\* wg.Wait() on a WaitGroup nothing was added to; the completion message
P0_Wait ==
    /\ variant = "api" /\ pc = "wait"
    /\ wg = 0
    /\ pc' = "done"
    /\ UNCHANGED <<inputs, remote, calls, groupID, i, hostID, j, hostNames, k,
                   loadv, now, pre>>

\* ------------------------------------------- src/unnamed/part_002 main
P2_CreateGroup ==
    /\ variant = "single" /\ pc = "start"
    /\ \E out \in CreateOutcomes(GroupDup(TestGroupName)) :
          /\ calls' = Append(calls, Call("hostgroup.create", TestGroupName, 0, out))
          /\ RemoteGroupCreate(TestGroupName, out)
          /\ IF out # "ok" THEN Fatal
             ELSE /\ pc' = "done"
                  /\ UNCHANGED <<groupID, i, hostID, j, hostNames, k>>
    /\ UNCHANGED <<inputs, loadv, now, pre>>

\* --------------------------------------------------------------- time
\* a second passes.  The clock is followed only while a goroutine waits on it:
\* a sendValues loop before its deadline, or a sleeping sender of
\* loadTestZabbix.go (up to MaxNow, its loop having no end)
Tick ==
    /\ pc \in {"launch", "wait"}
    /\ \/ \E w \in HostIdx : workers[w].st = "loop" /\ variant = "lookup"
                              /\ now < workers[w].endTime
       \/ \E w \in HostIdx : workers[w].st = "sleep" /\ now < workers[w].wake
                              /\ now < MaxNow
    /\ now' = now + 1
    /\ UNCHANGED <<inputs, remote, calls, mainv, loadv, pre>>

Next ==
    \/ P1_GroupGet \/ P1_GroupCreate \/ P1_HostGet \/ P1_HostCreate
    \/ P1_ItemGet \/ P1_ItemCreate \/ P1_Launch \/ P1_Wait
    \/ \E w \in HostIdx : SendValuesStart(w)
    \/ \E w \in HostIdx : SendValuesIter(w)
    \/ \E w \in HostIdx : SendValuesEnd(w)
    \/ LT_CreateGroup \/ LT_CreateHost \/ LT_CreateItem \/ LT_Launch \/ LT_Wait
    \/ \E w \in HostIdx : LT_WorkerSend(w)
    \/ \E w \in HostIdx : LT_WorkerSleep(w)
    \/ \E w \in HostIdx : LT_WorkerWake(w)
    \/ P0_CreateGroup \/ P0_CreateHost \/ P0_CreateItem \/ P0_Wait
    \/ P2_CreateGroup
    \/ Tick

Spec == Init /\ [][Next]_vars

\* part_001 alone, from an empty remote state and with no or all items asked
\* for (the goroutines read neither), under the scheduling a Go program gets:
\* main and every started goroutine keep running, time passes
FairInit ==
    /\ Init
    /\ variant = "lookup"
    /\ pre = <<{}, {}, {}>>
    /\ numItems \in {0, MaxItems}

P1_Main ==
    \/ P1_GroupGet \/ P1_GroupCreate \/ P1_HostGet \/ P1_HostCreate
    \/ P1_ItemGet \/ P1_ItemCreate \/ P1_Launch \/ P1_Wait

NextLookup ==
    \/ P1_Main
    \/ \E w \in HostIdx : SendValuesStart(w)
    \/ \E w \in HostIdx : SendValuesIter(w)
    \/ \E w \in HostIdx : SendValuesEnd(w)
    \/ Tick

Fairness ==
    /\ WF_vars(P1_Main)
    /\ WF_vars(Tick)
    /\ \A w \in HostIdx : WF_vars(SendValuesStart(w))
    /\ \A w \in HostIdx : WF_vars(SendValuesEnd(w))

FairSpec == FairInit /\ [][NextLookup]_vars /\ Fairness

\* ==================================================================
\* Properties
\* ==================================================================
ProvisioningDone == pc \in {"launch", "wait", "done"}
AllCallsOk == \A n \in 1..Len(calls) : calls[n].out = "ok"
CreateMethods == {"hostgroup.create", "host.create", "item.create"}
CallsOf(method) == {n \in 1..Len(calls) : calls[n].method = method}
RemoteNow == <<groups, hosts, items>>
ItemKeysOf(hid) == {it.key_ : it \in {x \in items : x.hostid = hid}}

\* the remote state before the run held the group, hosts 1..N and items 1..M
PreComplete ==
    /\ \E g \in pre[1] : g.name = PerfGroupName
    /\ \A n \in 1..numHosts :
          \E h \in pre[2] :
             /\ h.host = PerfHostName(n)
             /\ \A m \in 1..numItems :
                   \E it \in pre[3] : it.hostid = h.hostid /\ it.key_ = PerfItemKey(m)

\* C1: in part_001, when the group, every host PerfTestHost-1..N and every
\* item perf.test[1..M] of each host exist before the run, no create call is
\* ever issued and the remote groups, hosts and items stay what they were.
C1_Idempotent ==
    (variant = "lookup" /\ PreComplete) =>
        /\ \A n \in 1..Len(calls) : calls[n].method \notin CreateMethods
        /\ RemoteNow = pre

C1_Witness ==
    /\ variant = "lookup" /\ PreComplete
    /\ numHosts = MaxHosts /\ numItems = MaxItems
    /\ pc = "done"
    /\ Cardinality(CallsOf("item.get")) = MaxHosts * MaxItems

\* C2: from an empty remote state, once provisioning has gone through with
\* every call answered, there is exactly one group (the program's), exactly N
\* hosts named with the indices 1..N and exactly N*M items, M per host keyed
\* with the indices 1..M; in part_001, loadTestZabbix.go and part_000 alike.
C2_ExactCounts ==
    (/\ variant \in {"lookup", "load", "api"}
     /\ pre = <<{}, {}, {}>>
     /\ ProvisioningDone /\ AllCallsOk) =>
        /\ Cardinality(groups) = 1
        /\ \A g \in groups : g.name = GroupName(variant)
        /\ Cardinality(hosts) = numHosts
        /\ {h.host : h \in hosts} = {HostName(variant, n) : n \in 1..numHosts}
        /\ Cardinality(items) = numHosts * numItems
        /\ \A h \in hosts :
              /\ ItemKeysOf(h.hostid) = {ItemKey(variant, m) : m \in 1..numItems}
              /\ Cardinality({x \in items : x.hostid = h.hostid}) = numItems

C2_Witness ==
    /\ variant = "load" /\ pre = <<{}, {}, {}>>
    /\ pc = "wait" /\ AllCallsOk
    /\ numHosts = MaxHosts /\ numItems = MaxItems
    /\ Cardinality(items) = MaxHosts * MaxItems

\* the objects the answered-or-applied create calls of the log account for
AppliedCreates == {n \in 1..Len(calls) :
                      calls[n].method \in CreateMethods /\ Applied(calls[n].out)}
CountObjects(r) == Cardinality(r[1]) + Cardinality(r[2]) + Cardinality(r[3])
CreatedExists(c) ==
    CASE c.method = "hostgroup.create" -> \E g \in groups : g.name = c.name
      [] c.method = "host.create" ->
            \E h \in hosts : h.host = c.name /\ h.groupid = c.id
      [] c.method = "item.create" ->
            \E it \in items : it.key_ = c.name /\ it.hostid = c.id
      [] OTHER -> TRUE

\* C3: a call that fails (transport, decode or API error) is the last call
\* the run issues: main is at log.Fatalf, no goroutine was launched, no
\* sender ran, the remote holds what it held before plus exactly what the
\* create calls up to that point put there, and all of that is still there.
C3_AbortAtFailure ==
    \A n \in 1..Len(calls) :
        calls[n].out # "ok" =>
            /\ n = Len(calls)
            /\ pc = "fatal"
            /\ wg = 0 /\ k = 0
            /\ \A w \in HostIdx : workers[w].st = "none" /\ sends[w] = <<>>
            /\ CountObjects(RemoteNow) = CountObjects(pre) + Cardinality(AppliedCreates)
            /\ pre[1] \subseteq groups /\ pre[2] \subseteq hosts /\ pre[3] \subseteq items
            /\ \A m \in AppliedCreates : CreatedExists(calls[m])

C3_Witness ==
    /\ pc = "fatal"
    /\ variant = "lookup"
    /\ Len(calls) >= 6
    /\ calls[Len(calls)].method = "item.get"
    /\ Cardinality(AppliedCreates) >= 3

\* the remote state before the run held the group and none of the hosts 1..N
PreGroupOnly ==
    /\ \E g \in pre[1] : g.name = PerfGroupName
    /\ \A n \in 1..numHosts : \A h \in pre[2] : h.host # PerfHostName(n)

\* C4: in part_001, with the group there and none of the hosts, a run whose
\* calls all succeed issues no hostgroup.create, passes the identifier that
\* hostgroup.get returned in every host.create, and creates all N hosts with
\* M items each.
C4_ReuseGroup ==
    (variant = "lookup" /\ PreGroupOnly /\ ProvisioningDone /\ AllCallsOk) =>
        /\ CallsOf("hostgroup.create") = {}
        /\ \E g \in pre[1] :
              /\ g.name = PerfGroupName
              /\ groupID = g.groupid
              /\ \A n \in CallsOf("host.create") : calls[n].id = g.groupid
        /\ Cardinality(CallsOf("host.create")) = numHosts
        /\ \A n \in 1..numHosts :
              \E h \in hosts \ pre[2] :
                 /\ h.host = PerfHostName(n)
                 /\ h.groupid = groupID
                 /\ ItemKeysOf(h.hostid) = {PerfItemKey(m) : m \in 1..numItems}

C4_Witness ==
    /\ variant = "lookup" /\ PreGroupOnly /\ pc = "done" /\ AllCallsOk
    /\ numHosts = MaxHosts /\ numItems = MaxItems
    /\ Cardinality(hosts \ pre[2]) = MaxHosts

\* C5 (as claimed): after a successful provisioning run of part_001 from any
\* remote state, every host PerfTestHost-1..N is in the group whose
\* identifier the run holds and owns an item for each key perf.test[1..M].
C5_AllInGroupWithItems ==
    (variant = "lookup" /\ ProvisioningDone /\ AllCallsOk) =>
        \A n \in 1..numHosts :
            \E h \in hosts :
               /\ h.host = PerfHostName(n)
               /\ h.groupid = groupID
               /\ \A m \in 1..numItems : PerfItemKey(m) \in ItemKeysOf(h.hostid)

\* C6: in part_001 main reaches its completion message only when every one of
\* the N goroutines has left its send loop; with N = 0 nothing is launched and
\* wg.Wait() lets it through at once; and with main, the goroutines and the
\* clock scheduled fairly, a run whose provisioning went through always
\* gets there.
C6_JoinThenComplete ==
    /\ [](pc = "done" =>
             /\ k = numHosts /\ wg = 0
             /\ \A w \in 1..numHosts : workers[w].st = "done")
    /\ []((pc = "wait" /\ numHosts = 0) =>
             /\ wg = 0
             /\ \A w \in HostIdx : workers[w].st = "none")
    /\ (ProvisioningDone ~> (pc = "done"))

C6_Witness ==
    /\ pc = "done"
    /\ numHosts = MaxHosts /\ testDurationSec = MaxDuration
    /\ \A w \in 1..numHosts : Len(sends[w]) = MaxSends

\* C7 (as claimed): in loadTestZabbix.go main never gets past wg.Wait(),
\* whatever the host count.
C7_NeverReturns == variant = "load" => pc # "done"

\* C7 (amended): with at least one host, main never gets past wg.Wait(): no
\* goroutine ever returns, so the counter stays at the number launched.
C7_NeverReturnsWithHosts ==
    (variant = "load" /\ numHosts >= 1) =>
        /\ pc # "done"
        /\ wg = k
        /\ \A w \in HostIdx : workers[w].st # "done"
        /\ pc = "wait" => wg = numHosts

C7_Witness ==
    /\ variant = "load" /\ pc = "wait"
    /\ numHosts = MaxHosts /\ numItems >= 1
    /\ now = MaxNow
    /\ \A w \in 1..numHosts : Len(sends[w]) = MaxSends

\* the whole provisioning sequence has been issued and answered
SequenceComplete ==
    /\ ProvisioningDone /\ AllCallsOk
    /\ i = numHosts + 1
    /\ Len(hostNames) = numHosts
    /\ Cardinality(CallsOf(IF variant = "lookup" THEN "host.get" ELSE "host.create"))
          = numHosts
    /\ Cardinality(CallsOf(IF variant = "lookup" THEN "item.get" ELSE "item.create"))
          = numHosts * numItems

\* C8: in loadTestZabbix.go and part_001, a goroutine exists or a sender has
\* run only when every call of the provisioning sequence, for all N hosts and
\* their M items, has returned successfully; the goroutines launched are one
\* per provisioned host, in order, and all N of them once main waits.
C8_LoadAfterProvisioning ==
    variant \in {"load", "lookup"} =>
        /\ (\E w \in HostIdx : workers[w].st # "none" \/ sends[w] # <<>>)
              => SequenceComplete
        /\ \A w \in HostIdx :
              /\ workers[w].st # "none" <=> w <= k
              /\ w <= k => workers[w].host = HostName(variant, w)
        /\ k <= numHosts
        /\ pc \in {"wait", "done"} => k = numHosts

C8_Witness ==
    /\ variant = "lookup" /\ pc = "wait"
    /\ numHosts = MaxHosts /\ numItems = MaxItems
    /\ \A w \in 1..numHosts : workers[w].st = "loop" /\ Len(sends[w]) >= 1

\* C9 (as claimed): every sender invocation of the goroutine launched for host
\* h names h and a key with an index in 1..M.
C9_OwnHostAndKeys ==
    \A w \in HostIdx : \A n \in 1..Len(sends[w]) :
        /\ sends[w][n].host = HostName(variant, w)
        /\ \E m \in 1..numItems : sends[w][n].key = ItemKey(variant, m)

\* a step in which goroutine w ran the sender
SenderRan(w) == sends'[w] # sends[w]

\* C10: a sender invocation, failed or not, leaves main where it is and the
\* other goroutines and the remote untouched, and the goroutine goes on: in
\* part_001 a failed one still counts (sentValues++), stays in the loop, and
\* the values a goroutine offers are "1", "2", "3", ... in order, none twice;
\* in loadTestZabbix.go the loop index moves on.
C10_FailedSendGoesOn ==
    [][\A w \in HostIdx : SenderRan(w) =>
          /\ pc' = pc /\ pc' # "fatal"
          /\ RemoteNow' = RemoteNow
          /\ \A v \in HostIdx \ {w} : workers'[v] = workers[v] /\ sends'[v] = sends[v]
          /\ workers'[w].st = "loop"
          /\ Len(sends'[w]) = Len(sends[w]) + 1
          /\ variant = "lookup" =>
                /\ workers'[w].err \in {"nil", "fail"}
                /\ workers'[w].sentValues = workers[w].sentValues + 1
                /\ \A n \in 1..Len(sends'[w]) : sends'[w][n].value = Digits(n)
          /\ variant = "load" => workers'[w].j = workers[w].j + 1
      ]_vars

C10_Witness ==
    /\ variant = "lookup" /\ numHosts = MaxHosts /\ pc = "wait"
    /\ workers[1].st = "loop" /\ workers[1].err = "fail"
    /\ workers[1].sentValues = MaxSends
    /\ sends[1][MaxSends].value = Digits(MaxSends)
    /\ workers[2].st = "done" /\ Len(sends[2]) = MaxSends

ApiMethods == {"hostgroup.get", "hostgroup.create", "host.get", "host.create",
               "item.get", "item.create"}

\* C11: no program ever updates or deletes a remote object.  Every call issued
\* is one of hostgroup.get/create, host.get/create, item.get/create; every
\* step keeps each group, host and item that was there, with its identifier,
\* group and owner; a step that issues a get call, and a step that issues no
\* call at all (the launch, the senders, the clock, the join), leaves the
\* remote groups, hosts and items exactly as they were; a create call adds at
\* most one object.
C11_RemoteOnlyGrows ==
    [][/\ \A n \in 1..Len(calls') : calls'[n].method \in ApiMethods
       /\ groups \subseteq groups'
       /\ hosts \subseteq hosts'
       /\ items \subseteq items'
       /\ CountObjects(RemoteNow') <= CountObjects(RemoteNow) + 1
       /\ calls' = calls => RemoteNow' = RemoteNow
       /\ (calls' # calls /\ calls'[Len(calls')].method \notin CreateMethods)
             => RemoteNow' = RemoteNow
       /\ ProvisioningDone => RemoteNow' = RemoteNow
      ]_vars

C11_Witness ==
    /\ variant = "lookup" /\ pc = "done"
    /\ pre[1] # {} /\ pre[2] # {} /\ pre[3] # {}
    /\ pre[2] \subseteq hosts /\ hosts # pre[2]
    /\ pre[3] \subseteq items /\ items # pre[3]
    /\ numHosts = MaxHosts
    /\ Cardinality(CallsOf("host.get")) = MaxHosts

====
